---- MODULE Spec2Model ----
(***************************************************************************)
(* A model of the agent-orchestration layer of ai-agents-examples:         *)
(*   src/src/domain/models/agent.py            Agent, SamplingParameter    *)
(*   src/src/application/ports/agent_service.py AgentService               *)
(*   src/src/infrastructure/agents/langgraph_agent.py                      *)
(*                                   LangGraphAgent, LangGraphSupervisor   *)
(*   src/examples/company_researcher/interfaces  router.py, schemas.py     *)
(* Python lists are objects: the registry self._tools is a reference into  *)
(* a heap of lists, so that `self._tools = tools` aliases and              *)
(* `self._tools.extend(tools)` mutates in place, as in the source.         *)
(***************************************************************************)
EXTENDS Naturals, Sequences, FiniteSets, TLC

VARIABLES
    metadata,     \* AgentService.metadata : Agent
    llm,          \* LangGraphAgent._llm
    cfg,          \* _stream_mode, _response_format, _pre_model_hook, _state_schema, _checkpointer
    tools,        \* LangGraphAgent._tools : a reference to a list object
    heap,         \* the list objects that are alive: reference -> contents
    callerLists,  \* references to lists the caller created and still holds
    graph,        \* LangGraphAgent._graph
    nbuilds,      \* number of graphs compiled so far (graph object identity)
    loads,        \* load_mcp_tools coroutines
    chats,        \* chat coroutines
    stream,       \* the chat_stream async generator
    store,        \* the checkpoint store behind the compiled graph, by thread_id
    sup,          \* the last LangGraphSupervisor construction
    response      \* the event stream of the last POST /responses

vars == <<metadata, llm, cfg, tools, heap, callerLists, graph, nbuilds,
          loads, chats, stream, store, sup, response>>

(***************************************************************************)
(* Bounds of the model.                                                    *)
(***************************************************************************)
MaxLen == 3          \* longest registry
MaxBuilds == 4       \* graphs compiled by one runtime
MaxCallerLists == 1  \* lists the caller keeps a reference to
MaxHistory == 4      \* checkpointed messages per thread
MaxUnits == 2        \* partial results of one stream
MaxAgents == 2       \* children handed to a supervisor
MaxMessages == 2     \* messages in the body of a POST /responses

None == "None"

\* A field that holds no object yet.
Absent == [absent |-> TRUE]

(***************************************************************************)
(* domain/models/agent.py                                                  *)
(***************************************************************************)
\* Three of the thirteen optional fields of SamplingParameter, one per type
\* (float, int, bool); values are written as their Python literals.
Fields == {"temperature", "seed", "logprobs"}

FieldValues(f) ==
    CASE f = "temperature" -> {"0.0", "0.7", "0.9"}
      [] f = "seed" -> {"0", "42"}
      [] f = "logprobs" -> {"False", "True"}

\* SamplingParameter(**d): every field, None where d has no entry.
SamplingParameter(d) == [f \in Fields |-> IF f \in DOMAIN d THEN d[f] ELSE None]

\* SamplingParameter.model_dump(exclude_none=True)
model_dump(sp) == [f \in {g \in Fields : sp[g] # None} |-> sp[f]]

\* {**a, **b}
DictMerge(a, b) ==
    [k \in DOMAIN a \cup DOMAIN b |-> IF k \in DOMAIN b THEN b[k] ELSE a[k]]

\* ModelInfo.identifier
identifier(mi) ==
    IF mi.provider # "" THEN <<mi.provider, ":", mi.name>> ELSE <<mi.name>>

ModelNames == {"gpt", "claude"}
Providers == {"", "openai"}
ApiKeys == {"", "k1"}

ModelInfo(name, provider, api_key) ==
    [name |-> name, provider |-> provider, api_key |-> api_key]

\* Agent.update_model_info
update_model_info(md, name, provider, api_key) ==
    [md EXCEPT !.model_info = ModelInfo(name, provider, api_key)]

\* The keyword arguments of update_sampling_parameters: every field, None by
\* default.  new_parameters keeps those whose value `is not None`.
\* A filter on truthiness (`if v`) instead of `v is not None`.
new_parameters_truthy(args) ==
    [f \in {g \in Fields : args[g] \notin {None, "0.0", "0", "False"}} |-> args[f]]

new_parameters(args) == [f \in {g \in Fields : args[g] # None} |-> args[f]]

\* Agent.update_sampling_parameters
update_sampling_parameters(md, args) ==
    [md EXCEPT !.sampling_parameters =
        SamplingParameter(DictMerge(model_dump(md.sampling_parameters),
                                    new_parameters(args)))]

(***************************************************************************)
(* application/ports/agent_service.py                                      *)
(***************************************************************************)
\* The argument sampling_parameters=None.
NoneDict == [is_none |-> TRUE]

\* `not sampling_parameters`: None or an empty dict
Falsy(d) == DOMAIN d \in {{}, {"is_none"}}

\* AgentService.__init__
AgentService_init(name, model_name, model_provider, api_key, sampling_parameters) ==
    [name |-> name,
     model_info |-> ModelInfo(model_name, model_provider, api_key),
     sampling_parameters |->
        SamplingParameter(IF Falsy(sampling_parameters)
                          THEN <<>> ELSE sampling_parameters)]

(***************************************************************************)
(* infrastructure/agents/langgraph_agent.py : LangGraphAgent               *)
(***************************************************************************)
Checkpointers == {"True", "False", "None"}
ListIds == 1 .. (MaxCallerLists + 1)
LoadIds == {"l1", "l2"}
ChatIds == {"c1", "c2"}
Threads == {"th1", "th2"}

\* The lists a caller passes to add_tools / update_tools.
CallerToolLists == {<<>>, <<"t2">>}

\* What MultiServerMCPClient.get_tools can return.
McpToolLists == {<<"m1">>, <<"m2">>, <<"m1", "m2">>}

\* The concrete runtime's _initialize_tools(): a new list on every call.
initialize_tools == <<"t1">>

\* init_chat_model(model=identifier, api_key=api_key, **sampling dump)
init_chat_model(md) ==
    [model |-> identifier(md.model_info),
     api_key |-> md.model_info.api_key,
     params |-> model_dump(md.sampling_parameters)]

\* create_react_agent(...): the compiled graph is determined by its inputs;
\* the tool list is copied into the graph's tool node at compile time.
create_react_agent(model, registry, c, name, n) ==
    [kind |-> "react",
     model |-> model,
     tools |-> registry,
     agents |-> <<>>,
     prompt |-> "_prompt",
     response_format |-> c.response_format,
     pre_model_hook |-> c.pre_model_hook,
     state_schema |-> c.state_schema,
     checkpointer |-> c.checkpointer,
     name |-> name,
     gid |-> n]

\* LangGraphAgent._update_graph, given the registry contents it reads
update_graph(registry) ==
    create_react_agent(llm, registry, cfg, metadata.name, nbuilds + 1)

\* What a graph was compiled from (everything but the object identity).
GraphInputs(g) == [g EXCEPT !.gid = 0]

Registry == heap[tools]

\* The smallest reference no caller holds: where a new list is allocated.
NewId == CHOOSE i \in ListIds \ callerLists :
            \A j \in ListIds \ callerLists : i <= j

\* Lists nobody refers to are gone.
Collect(h, live) == [i \in live |-> h[i]]

\* An add_tools that rebuilds before it extends.
add_tools_stale(new) ==
    /\ heap' = [heap EXCEPT ![tools] = @ \o new]
    /\ graph' = update_graph(heap[tools])
    /\ nbuilds' = nbuilds + 1
    /\ UNCHANGED <<tools, callerLists>>

\* LangGraphAgent.add_tools: extend in place, rebuild
add_tools(new) ==
    /\ heap' = [heap EXCEPT ![tools] = @ \o new]
    /\ graph' = update_graph(heap'[tools])
    /\ nbuilds' = nbuilds + 1
    /\ UNCHANGED <<tools, callerLists>>

\* An update_tools that extends the registry with the list passed in.
update_tools_extend(id, contents, held) == add_tools(contents)

\* LangGraphAgent.update_tools: the registry becomes the list passed in
\* (the same object), rebuild.  `held` tells whether the caller keeps it.
update_tools(id, contents, held) ==
    /\ tools' = id
    /\ callerLists' = IF held THEN callerLists \cup {id} ELSE callerLists
    /\ heap' = Collect([i \in DOMAIN heap \cup {id} |->
                           IF i = id THEN contents ELSE heap[i]],
                       callerLists' \cup {id})
    /\ graph' = update_graph(contents)
    /\ nbuilds' = nbuilds + 1

\* A reset that appends the initial tools instead of replacing with them.
reset_tools_append == add_tools(initialize_tools)

\* LangGraphAgent.reset_tools
reset_tools == update_tools(NewId, initialize_tools, FALSE)

Idle == [pc |-> "idle"]
NoStream == [pc |-> "none"]
NoSupervisor == [status |-> "none"]
NoResponse == [pc |-> "none"]

\* LangGraphAgent.__init__: the fields of the constructed runtime
Construct(name, model_name, model_provider, api_key, sampling_parameters, checkpointer) ==
    LET md == AgentService_init(name, model_name, model_provider, api_key,
                                sampling_parameters)
        model == init_chat_model(md)
        c == [stream_mode |-> "messages", response_format |-> None,
              pre_model_hook |-> None, state_schema |-> "AgentState",
              checkpointer |-> checkpointer]
    IN  [metadata |-> md, llm |-> model, cfg |-> c,
         registry |-> initialize_tools,
         graph |-> create_react_agent(model, initialize_tools, c, md.name, 1)]

\* The state after LangGraphAgent(...) returns.
AgentInit(name, model_name, model_provider, api_key, sampling_parameters, checkpointer) ==
    LET r == Construct(name, model_name, model_provider, api_key,
                       sampling_parameters, checkpointer)
    IN  /\ metadata = r.metadata
        /\ llm = r.llm
        /\ cfg = r.cfg
        /\ tools = 1
        /\ heap = [i \in {1} |-> r.registry]
        /\ callerLists = {}
        /\ graph = r.graph
        /\ nbuilds = 1

\* Nothing checkpointed under any thread_id.
EmptyStore == [t \in Threads |-> <<>>]

Quiet ==
    /\ loads = [l \in LoadIds |-> Idle]
    /\ chats = [c \in ChatIds |-> Idle]
    /\ stream = NoStream
    /\ store = EmptyStore
    /\ sup = NoSupervisor
    /\ response = NoResponse

Init ==
    /\ \E ck \in Checkpointers : AgentInit("agent", "gpt", "openai", "k1", NoneDict, ck)
    /\ Quiet

(***************************************************************************)
(* The caller's synchronous tool mutations.                                *)
(***************************************************************************)
CanBuild == nbuilds < MaxBuilds

Rest == <<metadata, llm, cfg, loads, chats, stream, store, sup, response>>

\* An add_tools that changes the tools of the cached graph object itself:
\* whoever holds that object, an invocation in flight included, sees them.
AddTools_inplace ==
    \E new \in CallerToolLists :
        LET registry == Registry \o new
            Seen(r) == IF "graph" \in DOMAIN r /\ r.graph = graph
                       THEN [r EXCEPT !.graph.tools = registry]
                       ELSE r
        IN  /\ CanBuild
            /\ Len(registry) <= MaxLen
            /\ heap' = [heap EXCEPT ![tools] = registry]
            /\ graph' = [graph EXCEPT !.tools = registry, !.gid = nbuilds + 1]
            /\ nbuilds' = nbuilds + 1
            /\ chats' = [c \in ChatIds |-> Seen(chats[c])]
            /\ stream' = Seen(stream)
            /\ UNCHANGED <<metadata, llm, cfg, tools, callerLists, loads,
                           store, sup, response>>

AddTools ==
    \E new \in CallerToolLists :
        /\ CanBuild
        /\ Len(Registry) + Len(new) <= MaxLen
        /\ add_tools(new)
        /\ UNCHANGED Rest

\* update_tools with a list the caller has just built and keeps
UpdateToolsNew ==
    \E new \in CallerToolLists :
        /\ CanBuild
        /\ Cardinality(callerLists) < MaxCallerLists
        /\ update_tools(NewId, new, TRUE)
        /\ UNCHANGED Rest

\* update_tools with a list the caller already holds
UpdateToolsHeld ==
    \E id \in callerLists :
        /\ CanBuild
        /\ update_tools(id, heap[id], TRUE)
        /\ UNCHANGED Rest

ResetTools ==
    /\ CanBuild
    /\ reset_tools
    /\ UNCHANGED Rest

(***************************************************************************)
(* load_mcp_tools: a coroutine that suspends at `await get_tools()`.       *)
(***************************************************************************)
Finished(r) == r.pc \in {"idle", "done", "failed"}

\* The other load_mcp_tools coroutines suspended at their await.
InFlight(l) == {m \in LoadIds \ {l} : loads[m].pc = "fetching"}

\* load_mcp_tools up to the await: the client is built, nothing else
\* (`during` remembers which loads were in flight at the call)
LoadStart(l) ==
    /\ Finished(loads[l])
    /\ loads' = [loads EXCEPT ![l] = [pc |-> "fetching", during |-> InFlight(l)]]
    /\ UNCHANGED <<metadata, llm, cfg, tools, heap, callerLists, graph, nbuilds,
                   chats, stream, store, sup, response>>

\* A load that puts its tools after the initial ones, in a list of its own.
LoadReturn_replace(l) ==
    \E fetched \in McpToolLists :
        /\ loads[l].pc = "fetching"
        /\ CanBuild
        /\ update_tools(NewId, initialize_tools \o fetched, FALSE)
        /\ loads' = [loads EXCEPT ![l] =
              [pc |-> "done", during |-> @.during, fetched |-> fetched]]
        /\ UNCHANGED <<metadata, llm, cfg, chats, stream, store, sup, response>>

\* get_tools() returns: add_tools(mcp_tools)
LoadReturn(l) ==
    \E fetched \in McpToolLists :
        /\ loads[l].pc = "fetching"
        /\ CanBuild
        /\ Len(Registry) + Len(fetched) <= MaxLen
        /\ add_tools(fetched)
        /\ loads' = [loads EXCEPT ![l] =
              [pc |-> "done", during |-> @.during, fetched |-> fetched]]
        /\ UNCHANGED <<metadata, llm, cfg, chats, stream, store, sup, response>>

\* A failing load that had already merged what one endpoint returned.
LoadFail_partial(l) ==
    /\ loads[l].pc = "fetching"
    /\ CanBuild
    /\ Len(Registry) + 1 <= MaxLen
    /\ loads' = [loads EXCEPT ![l] =
          [pc |-> "failed", during |-> @.during, raised |-> "ToolDiscoveryError"]]
    /\ heap' = [heap EXCEPT ![tools] = @ \o <<"m1">>]
    /\ UNCHANGED <<metadata, llm, cfg, tools, callerLists, graph, nbuilds,
                   chats, stream, store, sup, response>>

\* get_tools() raises: the exception leaves load_mcp_tools at the await
LoadFail(l) ==
    /\ loads[l].pc = "fetching"
    /\ loads' = [loads EXCEPT ![l] =
          [pc |-> "failed", during |-> @.during, raised |-> "ToolDiscoveryError"]]
    /\ UNCHANGED <<metadata, llm, cfg, tools, heap, callerLists, graph, nbuilds,
                   chats, stream, store, sup, response>>

(***************************************************************************)
(* chat: a coroutine that suspends at `await self._graph.ainvoke(...)`.    *)
(***************************************************************************)
\* A caller's message list; the content names the conversation it belongs to.
UserMessages(t) == <<[role |-> "user", content |-> t]>>

\* The model's answer to a conversation state: it echoes the last message.
Reply(state) == [role |-> "ai", content |-> state[Len(state)].content]

\* A configuration that names one thread whatever the caller asked for.
RunnableConfig_shared(thread_id) == [configurable |-> [thread_id |-> "th1"]]

\* RunnableConfig(configurable={"thread_id": thread_id})
RunnableConfig(thread_id) == [configurable |-> [thread_id |-> thread_id]]

\* Whether a graph invoked on its own persists its state by thread_id.
Persists(g) == g.checkpointer = "True"

\* The conversation state a graph starts an invocation from.
Checkpoint(g, config) ==
    IF Persists(g) THEN store[config.configurable.thread_id] ELSE <<>>

\* The checkpoint store after an invocation has written `state`.
Saved(g, config, state) ==
    IF Persists(g)
    THEN [store EXCEPT ![config.configurable.thread_id] = state]
    ELSE store

\* chat up to the await: self._graph is read, ainvoke starts on it
ChatStart(c) ==
    \E t \in Threads :
        LET config == RunnableConfig(t)
            begun == Checkpoint(graph, config) \o UserMessages(t)
        IN  /\ Finished(chats[c])
            /\ Len(begun) < MaxHistory
            /\ chats' = [chats EXCEPT ![c] =
                  [pc |-> "running", thread_id |-> t, config |-> config,
                   graph |-> graph, registry |-> Registry,
                   input |-> [messages |-> UserMessages(t)],
                   state |-> begun]]
            /\ UNCHANGED <<metadata, llm, cfg, tools, heap, callerLists, graph,
                           nbuilds, loads, stream, store, sup, response>>

\* ainvoke returns the terminal state
ChatReturn(c) ==
    LET r == chats[c]
        final == Append(r.state, Reply(r.state))
    IN  /\ r.pc = "running"
        /\ store' = Saved(r.graph, r.config, final)
        /\ chats' = [chats EXCEPT ![c] =
              [r EXCEPT !.pc = "done", !.state = final]]
        /\ UNCHANGED <<metadata, llm, cfg, tools, heap, callerLists, graph,
                       nbuilds, loads, stream, sup, response>>

\* A chat that rebuilds the graph when the invocation fails.
ChatFail_rebuild(c) ==
    /\ chats[c].pc = "running"
    /\ nbuilds < MaxBuilds
    /\ chats' = [chats EXCEPT ![c] = [@ EXCEPT !.pc = "failed"]]
    /\ graph' = update_graph(Registry)
    /\ nbuilds' = nbuilds + 1
    /\ UNCHANGED <<metadata, llm, cfg, tools, heap, callerLists,
                   loads, stream, store, sup, response>>

\* ainvoke raises
ChatFail(c) ==
    /\ chats[c].pc = "running"
    /\ chats' = [chats EXCEPT ![c] = [@ EXCEPT !.pc = "failed"]]
    /\ UNCHANGED <<metadata, llm, cfg, tools, heap, callerLists, graph,
                   nbuilds, loads, stream, store, sup, response>>

(***************************************************************************)
(* chat_stream: an async generator.  Calling it runs nothing; each         *)
(* __anext__ of the consumer resumes the body, which takes one chunk from  *)
(* self._graph.astream(...) and yields it.                                 *)
(***************************************************************************)
\* What the k-th step of the reasoning loop emits: the loop alternates
\* between a model step and a tool step.
Unit(k) == IF k % 2 = 1 THEN "ai" ELSE "tool"

StreamOver(s) == s.pc \in {"none", "exhausted", "failed", "closed"}

\* A Python list handed over as it is, in no dict: astream(message, ...).
BareList(items) == [list |-> items]

\* chat_stream(message, thread_id): the generator object is created
StreamCall ==
    \E t \in Threads :
        /\ StreamOver(stream)
        /\ stream' = [pc |-> "created", thread_id |-> t,
                      message |-> UserMessages(t), config |-> Absent,
                      graph |-> Absent, input |-> Absent, state |-> <<>>,
                      produced |-> <<>>, delivered |-> <<>>, chunk |-> Absent]
        /\ UNCHANGED <<metadata, llm, cfg, tools, heap, callerLists, graph,
                       nbuilds, loads, chats, store, sup, response>>

\* The first __anext__: the body starts, reads self._graph, calls astream
StreamBegin ==
    LET config == RunnableConfig(stream.thread_id)
        begun == Checkpoint(graph, config) \o stream.message
    IN  /\ stream.pc = "created"
        /\ Len(begun) < MaxHistory
        /\ stream' = [stream EXCEPT !.pc = "pulling", !.config = config,
                         !.graph = graph, !.input = BareList(stream.message),
                         !.state = begun]
        /\ UNCHANGED <<metadata, llm, cfg, tools, heap, callerLists, graph,
                       nbuilds, loads, chats, store, sup, response>>

\* A later __anext__: the body resumes after its yield
StreamResume ==
    /\ stream.pc = "suspended"
    /\ stream' = [stream EXCEPT !.pc = "pulling"]
    /\ UNCHANGED <<metadata, llm, cfg, tools, heap, callerLists, graph,
                   nbuilds, loads, chats, store, sup, response>>

\* A graph that emits whichever unit it likes.
GraphProduce_moody ==
    \E r \in {"ai", "tool"} :
        LET s == stream
            chunk == [role |-> r, content |-> s.state[Len(s.state)].content]
            state == Append(s.state, chunk)
        IN  /\ s.pc = "pulling"
            /\ Len(s.produced) < MaxUnits
            /\ store' = Saved(s.graph, s.config, state)
            /\ stream' = [s EXCEPT !.pc = "yielding", !.state = state,
                             !.produced = Append(@, chunk), !.chunk = chunk]
            /\ UNCHANGED <<metadata, llm, cfg, tools, heap, callerLists, graph,
                           nbuilds, loads, chats, sup, response>>

\* astream runs the graph up to its next chunk and hands it to the loop
GraphProduce ==
    LET s == stream
        chunk == [role |-> Unit(Len(s.produced) + 1),
                  content |-> s.state[Len(s.state)].content]
        state == Append(s.state, chunk)
    IN  /\ s.pc = "pulling"
        /\ Len(s.produced) < MaxUnits
        /\ store' = Saved(s.graph, s.config, state)
        /\ stream' = [s EXCEPT !.pc = "yielding", !.state = state,
                         !.produced = Append(@, chunk), !.chunk = chunk]
        /\ UNCHANGED <<metadata, llm, cfg, tools, heap, callerLists, graph,
                       nbuilds, loads, chats, sup, response>>

\* astream is exhausted: the loop and the generator end
GraphFinish ==
    /\ stream.pc = "pulling"
    /\ stream' = [stream EXCEPT !.pc = "exhausted"]
    /\ UNCHANGED <<metadata, llm, cfg, tools, heap, callerLists, graph,
                   nbuilds, loads, chats, store, sup, response>>

\* astream raises: the exception leaves the generator
GraphRaise ==
    /\ stream.pc = "pulling"
    /\ stream' = [stream EXCEPT !.pc = "failed"]
    /\ UNCHANGED <<metadata, llm, cfg, tools, heap, callerLists, graph,
                   nbuilds, loads, chats, store, sup, response>>

\* A generator that yields its chunks newest first.
StreamYield_reorder ==
    /\ stream.pc = "yielding"
    /\ stream' = [stream EXCEPT !.pc = "suspended",
                     !.delivered = <<stream.chunk>> \o @, !.chunk = Absent]
    /\ UNCHANGED <<metadata, llm, cfg, tools, heap, callerLists, graph,
                   nbuilds, loads, chats, store, sup, response>>

\* A generator that reads one chunk ahead of the one it yields.
StreamYield_readahead ==
    LET s == stream
        ahead == [role |-> Unit(Len(s.produced) + 1),
                  content |-> s.state[Len(s.state)].content]
    IN  /\ s.pc = "yielding"
        /\ store' = Saved(s.graph, s.config, Append(s.state, ahead))
        /\ stream' = [s EXCEPT !.pc = "suspended",
                         !.delivered = Append(@, s.chunk),
                         !.state = Append(@, ahead),
                         !.produced = Append(@, ahead), !.chunk = ahead]
        /\ UNCHANGED <<metadata, llm, cfg, tools, heap, callerLists, graph,
                       nbuilds, loads, chats, sup, response>>

\* `yield chunk`: the consumer receives the chunk, the body is suspended
StreamYield ==
    /\ stream.pc = "yielding"
    /\ stream' = [stream EXCEPT !.pc = "suspended",
                     !.delivered = Append(@, stream.chunk), !.chunk = Absent]
    /\ UNCHANGED <<metadata, llm, cfg, tools, heap, callerLists, graph,
                   nbuilds, loads, chats, store, sup, response>>

\* The consumer leaves its loop and never asks for the next unit
ConsumerStop ==
    /\ stream.pc = "suspended"
    /\ stream' = [stream EXCEPT !.pc = "abandoned"]
    /\ UNCHANGED <<metadata, llm, cfg, tools, heap, callerLists, graph,
                   nbuilds, loads, chats, store, sup, response>>

\* The abandoned generator is finalized: GeneratorExit at the yield
StreamClose ==
    /\ stream.pc = "abandoned"
    /\ stream' = [stream EXCEPT !.pc = "closed"]
    /\ UNCHANGED <<metadata, llm, cfg, tools, heap, callerLists, graph,
                   nbuilds, loads, chats, store, sup, response>>

(***************************************************************************)
(* chat_stream on a fresh runtime with a deterministic stub model.         *)
(***************************************************************************)
\* How many units the stub model's loop emits for a message list: it is a
\* function of the messages alone.
StubUnits(message) ==
    IF message[Len(message)].content = "th1" THEN 1 ELSE MaxUnits

\* astream hands over the next unit of the stub's run
StubProduce ==
    /\ stream.pc = "pulling"
    /\ Len(stream.produced) < StubUnits(stream.message)
    /\ GraphProduce

\* astream is exhausted when the stub's run is over
StubFinish ==
    /\ stream.pc = "pulling"
    /\ Len(stream.produced) = StubUnits(stream.message)
    /\ GraphFinish

\* What is remembered of a stream that is over.
Summary(s) ==
    [thread_id |-> s.thread_id, message |-> s.message, graph |-> s.graph,
     pc |-> s.pc, delivered |-> s.delivered]

\* A second runtime is constructed with the arguments of the first (new
\* registry, new graph, nothing checkpointed) and chat_stream is called on
\* it; the stream of the first runtime is remembered.
StreamOnFresh ==
    \E t \in Threads :
        LET r == Construct(metadata.name, metadata.model_info.name,
                           metadata.model_info.provider,
                           metadata.model_info.api_key,
                           model_dump(metadata.sampling_parameters),
                           cfg.checkpointer)
        IN  /\ stream.pc \in {"exhausted", "closed"}
            /\ metadata' = r.metadata
            /\ llm' = r.llm
            /\ cfg' = r.cfg
            /\ tools' = 1
            /\ heap' = [i \in {1} |-> r.registry]
            /\ callerLists' = {}
            /\ graph' = r.graph
            /\ nbuilds' = 1
            /\ store' = EmptyStore
            /\ stream' = [pc |-> "created", thread_id |-> t,
                          message |-> UserMessages(t), config |-> Absent,
                          graph |-> Absent, input |-> Absent, state |-> <<>>,
                          produced |-> <<>>, delivered |-> <<>>,
                          chunk |-> Absent, prev |-> Summary(stream)]
            /\ UNCHANGED <<loads, chats, sup, response>>

(***************************************************************************)
(* Specifications.                                                         *)
(***************************************************************************)
\* One runtime: tool mutations, one load_mcp_tools and one chat in flight.
Next ==
    \/ AddTools
    \/ UpdateToolsNew
    \/ UpdateToolsHeld
    \/ ResetTools
    \/ LoadStart("l1")
    \/ LoadReturn("l1")
    \/ LoadFail("l1")
    \/ ChatStart("c1")
    \/ ChatReturn("c1")
    \/ ChatFail("c1")

Spec == Init /\ [][Next]_vars

NextTools ==
    \/ AddTools
    \/ UpdateToolsNew
    \/ UpdateToolsHeld
    \/ ResetTools
    \/ LoadStart("l1")
    \/ LoadReturn("l1")
    \/ LoadFail("l1")

\* One runtime, its caller's tool mutations and one load_mcp_tools.
SpecTools == Init /\ [][NextTools]_vars

\* A runtime constructed without a checkpoint policy of its own.
InitInFlight ==
    /\ AgentInit("agent", "gpt", "openai", "k1", NoneDict, None)
    /\ Quiet

NextInFlight ==
    \/ AddTools
    \/ ResetTools
    \/ ChatStart("c1")
    \/ ChatReturn("c1")
    \/ ChatFail("c1")
    \/ StreamCall
    \/ StreamBegin
    \/ StreamResume
    \/ GraphProduce
    \/ GraphFinish
    \/ StreamYield

\* One runtime whose tools change while a chat and a stream are in flight.
SpecInFlight == InitInFlight /\ [][NextInFlight]_vars

\* The caller appends a tool to a list it holds: list.append, no call on
\* the runtime.
CallerAppend ==
    \E id \in callerLists :
        /\ Len(heap[id]) < MaxLen
        /\ heap' = [heap EXCEPT ![id] = Append(@, "t3")]
        /\ UNCHANGED <<metadata, llm, cfg, tools, callerLists, graph, nbuilds,
                       loads, chats, stream, store, sup, response>>

NextOwnership ==
    \/ AddTools
    \/ UpdateToolsNew
    \/ UpdateToolsHeld
    \/ ResetTools
    \/ CallerAppend

\* One runtime and a caller that keeps the lists it passes to update_tools.
SpecOwnership == Init /\ [][NextOwnership]_vars

NextLoads ==
    \/ LoadStart("l1")
    \/ LoadReturn("l1")
    \/ LoadFail("l1")
    \/ LoadStart("l2")
    \/ LoadReturn("l2")
    \/ LoadFail("l2")

\* One runtime with two load_mcp_tools calls in flight.
SpecLoads == Init /\ [][NextLoads]_vars

\* One runtime whose tools stay as constructed: a chat and a stream.
NextStream ==
    \/ StreamCall
    \/ StreamBegin
    \/ StreamResume
    \/ GraphProduce
    \/ GraphFinish
    \/ GraphRaise
    \/ StreamYield
    \/ ConsumerStop
    \/ StreamClose
    \/ ChatStart("c1")
    \/ ChatReturn("c1")
    \/ ChatFail("c1")

SpecStream == Init /\ [][NextStream]_vars

NextStub ==
    \/ StreamCall
    \/ StreamOnFresh
    \/ StreamBegin
    \/ StreamResume
    \/ StubProduce
    \/ StubFinish
    \/ StreamYield
    \/ ConsumerStop
    \/ StreamClose

\* Streams on fresh runtimes whose model is a deterministic stub.
SpecStub == Init /\ [][NextStub]_vars

(***************************************************************************)
(* The caller's updates of the runtime's metadata.                         *)
(***************************************************************************)
\* The keyword arguments a caller can give update_sampling_parameters.
UpdateArgs ==
    {a \in [Fields -> {None} \cup UNION {FieldValues(f) : f \in Fields}] :
        \A f \in Fields : a[f] \in FieldValues(f) \cup {None}}

UpdateSamplingParameters ==
    \E args \in UpdateArgs :
        /\ metadata' = update_sampling_parameters(metadata, args)
        /\ UNCHANGED <<llm, cfg, tools, heap, callerLists, graph, nbuilds,
                       loads, chats, stream, store, sup, response>>

UpdateModelInfo ==
    \E name \in ModelNames, provider \in Providers, api_key \in ApiKeys :
        /\ metadata' = update_model_info(metadata, name, provider, api_key)
        /\ UNCHANGED <<llm, cfg, tools, heap, callerLists, graph, nbuilds,
                       loads, chats, stream, store, sup, response>>

\* The sampling_parameters a runtime is constructed with.
InitialDicts ==
    {NoneDict, [f \in {"temperature", "seed"} |->
                   IF f = "temperature" THEN "0.7" ELSE "42"]}

InitSampling ==
    /\ \E d \in InitialDicts : AgentInit("agent", "gpt", "openai", "k1", d, None)
    /\ Quiet

NextSampling ==
    \/ UpdateSamplingParameters
    \/ UpdateModelInfo

\* One runtime whose caller updates the model binding and the sampling.
SpecSampling == InitSampling /\ [][NextSampling]_vars

NextConfigured ==
    \/ UpdateSamplingParameters
    \/ UpdateModelInfo
    \/ ChatStart("c1")
    \/ ChatReturn("c1")
    \/ ChatFail("c1")

\* One runtime whose caller updates its metadata between chats.
SpecConfigured == Init /\ [][NextConfigured]_vars

(***************************************************************************)
(* infrastructure/agents/langgraph_agent.py : LangGraphSupervisor          *)
(***************************************************************************)
\* The parameters LangGraphAgent.__init__ declares (it takes no **kwargs).
AgentInitParams ==
    {"name", "model_name", "model_provider", "api_key", "sampling_parameters",
     "stream_mode", "response_format", "pre_model_hook", "state_schema",
     "checkpointer"}

\* The keywords LangGraphSupervisor.__init__ passes to super().__init__.
SuperInitKeywords ==
    {"name", "model_name", "model_provider", "api_key", "sampling_parameters",
     "stream_mode", "tools", "response_format", "pre_model_hook",
     "state_schema", "checkpointer"}

\* A Python call binds its keywords only to declared parameters.
CallBinds(keywords, params) == keywords \subseteq params

ChildNames == {"A", "B"}

\* An already constructed child runtime: its metadata name and its _graph.
Child(name, checkpointer) ==
    LET md == AgentService_init(name, "gpt", "openai", "k1", NoneDict)
        c == [stream_mode |-> "messages", response_format |-> None,
              pre_model_hook |-> None, state_schema |-> "AgentState",
              checkpointer |-> checkpointer]
    IN  [name |-> name,
         graph |-> create_react_agent(init_chat_model(md), initialize_tools,
                                      c, name, 1)]

ChildRuntimes == {Child(n, ck) : n \in ChildNames, ck \in {"None", "True"}}

AgentLists == UNION {[1 .. k -> ChildRuntimes] : k \in 0 .. MaxAgents}

\* create_supervisor(...).compile(checkpointer=..., name=...)
create_supervisor(agents, model, registry, c, name, n) ==
    [kind |-> "supervisor",
     model |-> model,
     tools |-> registry,
     agents |-> agents,
     prompt |-> "_prompt",
     response_format |-> c.response_format,
     pre_model_hook |-> None,
     state_schema |-> c.state_schema,
     checkpointer |-> c.checkpointer,
     name |-> name,
     gid |-> n]

\* LangGraphSupervisor._update_graph
supervisor_update_graph(agents, model, registry, c, name, n) ==
    create_supervisor([i \in DOMAIN agents |-> agents[i].graph],
                      model, registry, c, name, n)

\* LangGraphSupervisor.__init__: self._agents is set, then super().__init__
\* is called with the keyword `tools`.  The outcome of the construction.
LangGraphSupervisor_init(agents, given, ck) ==
    LET args == [agents |-> agents, tools |-> given, checkpointer |-> ck]
        md == AgentService_init("supervisor", "gpt", "openai", "k1", NoneDict)
        c == [stream_mode |-> "messages", response_format |-> None,
              pre_model_hook |-> None, state_schema |-> "AgentState",
              checkpointer |-> ck]
    IN  IF CallBinds(SuperInitKeywords, AgentInitParams)
        THEN [status |-> "constructed", raised |-> None, args |-> args,
              agents |-> agents, tools |-> initialize_tools,
              graph |-> supervisor_update_graph(
                           agents, init_chat_model(md),
                           initialize_tools, c, "supervisor", 1)]
        ELSE [status |-> "failed", raised |-> "TypeError",
              args |-> args, agents |-> agents, tools |-> Absent,
              graph |-> Absent]

SupervisorInit ==
    \E agents \in AgentLists, given \in CallerToolLists, ck \in Checkpointers :
        /\ sup' = LangGraphSupervisor_init(agents, given, ck)
        /\ UNCHANGED <<metadata, llm, cfg, tools, heap, callerLists, graph,
                       nbuilds, loads, chats, stream, store, response>>

NextSupervisor == SupervisorInit

\* Supervisors constructed over already constructed children.
SpecSupervisor == Init /\ [][NextSupervisor]_vars

\* This runtime as a child of a supervisor: its name and its current _graph.
ThisRuntime == [name |-> metadata.name, graph |-> graph]

\* The children a supervisor is given beside this runtime.
Siblings == {<<>>, <<Child("B", None)>>}

\* A supervisor constructed over this runtime, alone or beside a second child.
SuperviseThis ==
    \E others \in Siblings, given \in CallerToolLists, ck \in Checkpointers :
        /\ sup' = LangGraphSupervisor_init(<<ThisRuntime>> \o others, given, ck)
        /\ UNCHANGED <<metadata, llm, cfg, tools, heap, callerLists, graph,
                       nbuilds, loads, chats, stream, store, response>>

\* A tool mutation on the child runtime.
ChildMutation == AddTools \/ UpdateToolsNew \/ UpdateToolsHeld \/ ResetTools

NextSupervised ==
    \/ SuperviseThis
    \/ AddTools
    \/ UpdateToolsNew
    \/ UpdateToolsHeld
    \/ ResetTools

\* A child runtime whose tools change before and after it is supervised.
SpecSupervised == Init /\ [][NextSupervised]_vars

(***************************************************************************)
(* examples/company_researcher/interfaces : schemas.py, router.py          *)
(***************************************************************************)
\* The fields class ChatResponse declares; each is required (no default).
ChatResponseFields == {"content"}

\* ChatResponse(**kwargs): validation passes when every required field is
\* given; keywords that name no field are ignored.
Validates(kwargs) == ChatResponseFields \subseteq DOMAIN kwargs

\* ChatResponse.model_dump_json(exclude_none=True): the declared fields
Dumped(kwargs) == [f \in ChatResponseFields \cap DOMAIN kwargs |-> kwargs[f]]

\* The keyword arguments of the ChatResponse objects stream_agent_response
\* builds, in the order of its yields.
ResponseSteps(user_message) ==
    <<[type |-> "start", output |-> "start"],
      [type |-> "action", action |-> "search", action_desc |-> "search info",
       output |-> user_message],
      [type |-> "result", output |-> "result 1"],
      [type |-> "result", output |-> "result 2"],
      [type |-> "result", output |-> "result 3"],
      [type |-> "end", output |-> "end"]>>

Roles == {"user", "assistant"}
Contents == {"a", "b"}
RequestMessages == [role : Roles, content : Contents]

\* ChatRequest: a message list and a session_id
ChatRequests ==
    [message : UNION {[1 .. k -> RequestMessages] : k \in 1 .. MaxMessages},
     session_id : Threads]

\* POST /responses: the handler returns a StreamingResponse over the
\* generator stream_agent_response(chat_request); its body has not started.
PostResponses ==
    \E chat_request \in ChatRequests :
        /\ response' = [pc |-> "created", request |-> chat_request,
                        events |-> <<>>, raised |-> None]
        /\ UNCHANGED <<metadata, llm, cfg, tools, heap, callerLists, graph,
                       nbuilds, loads, chats, stream, store, sup>>

\* One __anext__ of stream_agent_response: the body runs to its next yield,
\* building the next ChatResponse on the way, or to its end.
ResponseNext ==
    LET r == response
        message == r.request.message
        steps == ResponseSteps(message[Len(message)].content)
        k == Len(r.events) + 1
    IN  /\ r.pc \in {"created", "suspended"}
        /\ response' =
              IF k > Len(steps)
              THEN [r EXCEPT !.pc = "exhausted"]
              ELSE IF Validates(steps[k])
                   THEN [r EXCEPT !.pc = "suspended",
                                  !.events = Append(@, Dumped(steps[k]))]
                   ELSE [r EXCEPT !.pc = "failed",
                                  !.raised = "ValidationError"]
        /\ UNCHANGED <<metadata, llm, cfg, tools, heap, callerLists, graph,
                       nbuilds, loads, chats, stream, store, sup>>

NextResponses ==
    \/ PostResponses
    \/ ResponseNext

\* The HTTP interface: requests and their event streams.
SpecResponses == Init /\ [][NextResponses]_vars

(***************************************************************************)
(* Properties.                                                             *)
(***************************************************************************)
Started(r) == r.pc # "idle"

\* C1: after any sequence of add_tools / update_tools / reset_tools the
\* cached graph is the one compiled from the registry as the last mutation
\* left it, and a chat that starts runs on a graph compiled from exactly the
\* tools the registry held when it started, never from an earlier snapshot.
C1_NoStaleGraph ==
    /\ graph.tools = Registry
    /\ graph.gid = nbuilds
    /\ \A c \in ChatIds :
          Started(chats[c]) => chats[c].graph.tools = chats[c].registry

\* A chat running on a rebuilt graph whose tools are not the initial ones.
C1_Witness ==
    /\ chats["c1"].pc = "running"
    /\ chats["c1"].graph.gid > 2
    /\ chats["c1"].registry # initialize_tools
    /\ chats["c1"].graph.tools = chats["c1"].registry

\* What LangGraphAgent(...) with the configuration of this runtime yields.
Fresh ==
    Construct(metadata.name, metadata.model_info.name,
              metadata.model_info.provider, metadata.model_info.api_key,
              model_dump(metadata.sampling_parameters), cfg.checkpointer)

\* C2: whatever add_tools / update_tools / load_mcp_tools did before, a
\* reset_tools leaves the registry contents and the inputs of the cached
\* graph equal to those of a freshly constructed runtime with the same
\* configuration; a second reset_tools therefore changes neither.
C2_ResetIsFresh ==
    [][ResetTools =>
          /\ Registry' = Fresh.registry
          /\ GraphInputs(graph') = GraphInputs(Fresh.graph)
          /\ tools' \notin callerLists']_vars

\* A runtime reset after the caller had replaced its registry.
C2_Witness ==
    /\ callerLists # {}
    /\ tools \notin callerLists
    /\ Registry = initialize_tools
    /\ GraphInputs(graph) = GraphInputs(Fresh.graph)
    /\ graph.gid >= 3

\* C3: update_sampling_parameters merges: every field the update gives a
\* non-null value takes that value, every field it leaves null keeps its
\* prior value.
C3_MergeNotReplace ==
    [][\A args \in UpdateArgs :
          metadata' = update_sampling_parameters(metadata, args) =>
             \A f \in Fields :
                metadata'.sampling_parameters[f] =
                   IF args[f] # None THEN args[f]
                   ELSE metadata.sampling_parameters[f]]_vars

\* {temperature: 0.7, seed: 42} updated with {temperature: 0.9}.
C3_Witness ==
    metadata.sampling_parameters =
        [f \in Fields |-> CASE f = "temperature" -> "0.9"
                            [] f = "seed" -> "42"
                            [] f = "logprobs" -> None]

HasDuplicateNames(agents) ==
    \E i, j \in DOMAIN agents : i # j /\ agents[i].name = agents[j].name

Attempted == sup.status # "none"

\* C4: a supervisor constructed over two children with the same name
\* fails with a ConfigurationError before any graph is compiled for it.
C4_DuplicateChildRejected ==
    (Attempted /\ HasDuplicateNames(sup.args.agents)) =>
        /\ sup.status = "failed"
        /\ sup.raised = "ConfigurationError"
        /\ sup.graph = Absent

\* C5: checkpointed state never mixes across threads: the checkpoint of a
\* thread, and the state an invocation with thread_id t works on and
\* returns, hold only messages of conversation t.
C5_ThreadIsolation ==
    /\ \A t \in Threads :
          \A i \in DOMAIN store[t] : store[t][i].content = t
    /\ \A c \in ChatIds :
          Started(chats[c]) =>
             \A i \in DOMAIN chats[c].state :
                chats[c].state[i].content = chats[c].thread_id
    /\ stream.pc # "none" =>
          \A i \in DOMAIN stream.state :
             stream.state[i].content = stream.thread_id

\* A chat on th2 that returned after th1 had been checkpointed.
C5_Witness ==
    /\ cfg.checkpointer = "True"
    /\ store["th1"] # <<>>
    /\ chats["c1"].pc = "done"
    /\ chats["c1"].thread_id = "th2"
    /\ store["th2"] = chats["c1"].state

Live(s) == s.pc \in {"pulling", "yielding", "suspended", "exhausted", "failed"}

\* C6: chat_stream delivers every unit the graph produces, in the order
\* produced, one per delivery: while the stream is consumed the delivered
\* units are the produced ones, but for the one chunk in hand.
C6_InOrderDelivery ==
    Live(stream) =>
        IF stream.pc = "yielding"
        THEN stream.produced = Append(stream.delivered, stream.chunk)
        ELSE stream.delivered = stream.produced

\* A stream consumed to its end that delivered two units.
C6_Witness ==
    /\ stream.pc = "exhausted"
    /\ Len(stream.delivered) = 2
    /\ stream.delivered[1] # stream.delivered[2]

\* C7: once the caller has stopped consuming, the graph has run no step
\* past the last delivered unit, and it runs none afterwards.
C7_StopEndsInvocation ==
    stream.pc \in {"abandoned", "closed"} =>
        /\ stream.produced = stream.delivered
        /\ stream.chunk = Absent

\* A stream abandoned after its first unit and finalized.
C7_Witness ==
    /\ stream.pc = "closed"
    /\ Len(stream.delivered) = 1

\* C8: a load_mcp_tools whose fetch fails surfaces the error and leaves
\* the registry and the cached graph exactly as they were.
C8_FailedLoadChangesNothing ==
    [][\A l \in LoadIds :
          LoadFail(l) =>
             /\ loads'[l].pc = "failed"
             /\ UNCHANGED <<tools, heap, callerLists, graph, nbuilds>>]_vars

\* A failed load on a runtime whose registry had been mutated.
C8_Witness ==
    /\ loads["l1"].pc = "failed"
    /\ graph.gid > 1
    /\ Registry # initialize_tools
    /\ graph.tools = Registry

InvocationStep ==
    \/ \E c \in ChatIds : ChatStart(c) \/ ChatReturn(c) \/ ChatFail(c)
    \/ StreamCall \/ StreamBegin \/ StreamResume
    \/ GraphProduce \/ GraphFinish \/ GraphRaise
    \/ StreamYield \/ ConsumerStop \/ StreamClose

\* C9: no step of chat or chat_stream, failing or not, changes the
\* runtime's metadata, tool registry, checkpoint policy or cached graph.
C9_InvocationFrame ==
    [][InvocationStep =>
          UNCHANGED <<metadata, llm, cfg, tools, heap, callerLists, graph,
                      nbuilds>>]_vars

\* A failed chat and a failed stream, the cached graph still the one both ran on.
C9_Witness ==
    /\ chats["c1"].pc = "failed"
    /\ stream.pc = "failed"
    /\ chats["c1"].graph = graph
    /\ stream.graph = graph

\* C10: a supervisor constructed over children with distinct names holds a
\* compiled graph that embeds each child's compiled graph, with the tools
\* given to its constructor and its own checkpoint policy.
C10_SupervisorBuilt ==
    (Attempted /\ ~HasDuplicateNames(sup.args.agents)) =>
        /\ sup.status = "constructed"
        /\ sup.graph.kind = "supervisor"
        /\ sup.graph.agents =
              [i \in DOMAIN sup.args.agents |-> sup.args.agents[i].graph]
        /\ sup.graph.tools = sup.args.tools
        /\ sup.graph.checkpointer = sup.args.checkpointer

\* C11: a tool mutation on a child after the supervisor was compiled
\* rebuilds the child's graph only: the supervisor holds a compiled graph,
\* it is left as it was, and it still embeds the child graph it was
\* compiled with.
C11_ChildRebuildNotReflected ==
    [][(Attempted /\ ChildMutation) =>
          /\ sup.status = "constructed"
          /\ sup' = sup
          /\ sup.graph.agents[1] = sup.args.agents[1].graph
          /\ graph'.gid = graph.gid + 1]_vars

\* The policy every graph of this runtime was compiled with is the one
\* stored by its constructor, one of the three values.
AgentPolicyKept ==
    /\ cfg.checkpointer \in Checkpointers
    /\ graph.checkpointer = cfg.checkpointer
    /\ \A c \in ChatIds :
          Started(chats[c]) => chats[c].graph.checkpointer = cfg.checkpointer

\* A supervisor given a policy holds a graph compiled with that policy.
SupervisorPolicyKept ==
    Attempted =>
        /\ sup.status = "constructed"
        /\ sup.graph.checkpointer = sup.args.checkpointer

\* C12: the checkpoint policy given at construction (enabled, disabled or
\* inherit) is the one every build and rebuild of the graph is compiled
\* with, for a single agent and for a supervisor, across tool mutations.
C12_PolicyPreserved == AgentPolicyKept /\ SupervisorPolicyKept

Begun(s) == s.pc \notin {"none", "created"}

\* C13: for the same message list and thread_id, chat and chat_stream hand
\* the graph the same input state (the list as the conversation's messages)
\* and the same thread_id-scoped configuration.
C13_SameInput ==
    \A c \in ChatIds :
        (/\ Started(chats[c])
         /\ Begun(stream)
         /\ chats[c].thread_id = stream.thread_id
         /\ chats[c].input.messages = stream.message) =>
            /\ chats[c].config = stream.config
            /\ chats[c].input = stream.input

HasPrev(s) == "prev" \in DOMAIN s

\* Two chat_stream calls with the same message list and thread_id on graphs
\* built from the same inputs.
SameCall(a, b) ==
    /\ a.thread_id = b.thread_id
    /\ a.message = b.message
    /\ GraphInputs(a.graph) = GraphInputs(b.graph)

Tagged(e, tag) ==
    /\ {"type", "output"} \subseteq DOMAIN e
    /\ e.type = tag

\* start, action (with its name and description), results, end.
WellFormed(events) ==
    /\ Len(events) >= 3
    /\ Tagged(events[1], "start")
    /\ Tagged(events[2], "action")
    /\ {"action", "action_desc"} \subseteq DOMAIN events[2]
    /\ \A i \in 3 .. (Len(events) - 1) : Tagged(events[i], "result")
    /\ Tagged(events[Len(events)], "end")

\* C15: the event stream of a POST /responses, once it is over, is one
\* start, one action with its name and description, the results, and one
\* end as its last event, each event carrying an output string.
C15_EventOrder ==
    response.pc \in {"exhausted", "failed"} =>
        /\ response.pc = "exhausted"
        /\ WellFormed(response.events)

\* C16: the cached graph is the one derived from the runtime's current
\* configuration, model included: after update_model_info or
\* update_sampling_parameters, the model handle of the runtime and of its
\* graph is the one the current metadata resolves to.
C16_GraphFollowsModel ==
    /\ llm = init_chat_model(metadata)
    /\ graph.model = init_chat_model(metadata)

\* The cached graph was compiled from a model or from tools that are no
\* longer those of the runtime's configuration.
Stale ==
    \/ graph.model # init_chat_model(metadata)
    \/ graph.tools # Registry

\* C18: an invocation attempted while the cached graph is stale is caught
\* by a check and fails with StaleGraphError instead of running.
C18_StaleInvocationRejected ==
    [][\A c \in ChatIds :
          (Stale /\ ChatStart(c)) =>
             /\ chats'[c].pc = "failed"
             /\ chats'[c].raised = "StaleGraphError"]_vars

\* Exactly one graph was compiled, from the registry as the step left it.
OneRebuild ==
    /\ nbuilds' = nbuilds + 1
    /\ graph'.gid = nbuilds'
    /\ graph'.tools = Registry'

\* The lists a call of update_tools can be given.
GivenLists ==
    CallerToolLists \cup {initialize_tools} \cup {heap[i] : i \in DOMAIN heap}

\* C17: add_tools(N) leaves the previous registry followed by N, in N's
\* order and with duplicates kept; update_tools(T) leaves exactly T;
\* reset_tools() leaves exactly the result of _initialize_tools(); each
\* compiles exactly one graph, from the registry it leaves.
C17_RegistryAfterMutation ==
    [][/\ \A new \in CallerToolLists \cup McpToolLists :
             add_tools(new) => (Registry' = Registry \o new /\ OneRebuild)
       /\ \A id \in ListIds, held \in BOOLEAN :
             \A T \in GivenLists :
                update_tools(id, T, held) => (Registry' = T /\ OneRebuild)
       /\ ResetTools => (Registry' = initialize_tools /\ OneRebuild)]_vars

\* The same tool added twice: the registry holds it twice.
C17_Witness ==
    /\ Registry = <<"t1", "t2", "t2">>
    /\ graph.tools = Registry
    /\ graph.gid = 3

BothLoaded ==
    /\ loads["l1"].pc = "done"
    /\ loads["l2"].pc = "done"
    /\ nbuilds = 3

\* C19: when two load_mcp_tools calls on one runtime have both completed,
\* each having merged once, the registry is the initial tools followed by
\* what the two fetched, each fetch once and whole, in the order the
\* fetches completed, and the cached graph was compiled from that registry.
C19_NoLostUpdate ==
    BothLoaded =>
        LET f1 == loads["l1"].fetched
            f2 == loads["l2"].fetched
        IN  /\ Registry \in {initialize_tools \o f1 \o f2,
                             initialize_tools \o f2 \o f1}
            /\ graph.tools = Registry
            /\ graph.gid = nbuilds

\* l2 was called while l1 was fetching and merged its tools before l1 did.
C19_Witness ==
    /\ BothLoaded
    /\ "l1" \in loads["l2"].during
    /\ loads["l1"].fetched = <<"m1">>
    /\ loads["l2"].fetched = <<"m2">>
    /\ Registry = <<"t1", "m2", "m1">>

ToolMutation ==
    \/ AddTools
    \/ UpdateToolsNew
    \/ UpdateToolsHeld
    \/ ResetTools
    \/ \E l \in LoadIds : LoadReturn(l)

InFlightChat(c) == chats[c].pc = "running"

InFlightStream == stream.pc \in {"pulling", "yielding", "suspended"}

\* C20: a tool mutation made while a chat or a chat_stream is in flight
\* puts a new graph object in the cache and leaves the old one as it was;
\* an invocation in flight keeps, step after step, the graph and the tools
\* it started with, and an invocation that starts takes the cached graph.
C20_InFlightKeepsGraph ==
    [][/\ ToolMutation =>
             /\ graph'.gid > graph.gid
             /\ \A c \in ChatIds :
                   InFlightChat(c) =>
                      (chats'[c] = chats[c] /\ chats[c].graph.gid < graph'.gid)
             /\ InFlightStream =>
                   (stream' = stream /\ stream.graph.gid < graph'.gid)
       /\ \A c \in ChatIds :
             /\ InFlightChat(c) =>
                   /\ chats'[c].graph = chats[c].graph
                   /\ chats[c].graph.tools = chats[c].registry
             /\ ChatStart(c) => chats'[c].graph = graph
       /\ InFlightStream => stream'.graph = stream.graph
       /\ StreamBegin => stream'.graph = graph]_vars

\* A chat and a stream in flight on the first graph, the stream past its
\* first unit, after a mutation has put a graph with other tools in the cache.
C20_Witness ==
    /\ InFlightChat("c1")
    /\ stream.pc = "suspended"
    /\ Len(stream.delivered) = 1
    /\ chats["c1"].graph.gid = 1
    /\ stream.graph.gid = 1
    /\ graph.gid > 1
    /\ graph.tools # stream.graph.tools
    /\ chats["c1"].graph.tools = initialize_tools

\* C21: the registry is the runtime's alone: add_tools and load_mcp_tools
\* leave every list the caller holds as it was, and a change the caller
\* makes to a list it holds leaves the registry as it was.
C21_RegistryOwned ==
    [][/\ (AddTools \/ \E l \in LoadIds : LoadReturn(l)) =>
             \A i \in callerLists : heap'[i] = heap[i]
       /\ CallerAppend => Registry' = Registry]_vars

====
